---------------------------- MODULE Spec2Model ----------------------------
(***************************************************************************)
(* A model of the acorn_prng crate (src/src/lib.rs): the ACORN generator   *)
(* (Order, Seed, Acorn), its state engine generate_u128 and the sampling   *)
(* functions built on it.                                                  *)
(*                                                                         *)
(* The crate computes on u128 values and TLC's integers are 32 bits wide,  *)
(* so a u128 is modelled as a tuple of 16-bit limbs, least significant     *)
(* first, and the arithmetic the crate uses (+, -, %, comparison, casts,   *)
(* is_power_of_two, next_power_of_two) is defined on such tuples.          *)
(***************************************************************************)
EXTENDS Integers, Sequences, FiniteSets, TLC

(***************************************************************************)
(* u128 arithmetic                                                         *)
(***************************************************************************)
U128Bits == 128
Base == 2^16
NumLimbs == U128Bits \div 16

\* the u128 with value n, for a small n (n < 2^31)
FromInt(n) == <<n % Base, n \div Base, 0, 0, 0, 0, 0, 0>>

Zero == FromInt(0)
One == FromInt(1)

\* u128::MAX
U128Max ==
    <<Base - 1, Base - 1, Base - 1, Base - 1, Base - 1, Base - 1, Base - 1, Base - 1>>

\* The element of the set {e}.  The source computes a value once and then
\* names it; The({ f(x) : x \in {v} }) is f(v) with v computed once, before
\* f, where f(v) would compute v again at each place f uses it, nesting
\* the iterations of a loop inside each other.
The(S) == CHOOSE r \in S : TRUE

\* -1, 0, 1 as a < b, a = b, a > b: decided by the highest limb that differs
Cmp(a, b) ==
    LET differ == {i \in 1..NumLimbs : a[i] # b[i]}
    IN  IF differ = {} THEN 0
        ELSE LET top == CHOOSE i \in differ : \A j \in differ : j <= i
             IN  IF a[top] < b[top] THEN -1 ELSE 1
Lt(a, b) == Cmp(a, b) < 0
Le(a, b) == Cmp(a, b) <= 0
Gt(a, b) == Cmp(a, b) > 0

\* a + b modulo 2^128 (limb by limb, the carry passed upwards): the value of
\* `+` where the sum fits a u128, the wrapped value where it does not
Add(a, b) ==
    LET s1 == a[1] + b[1]
        s2 == a[2] + b[2] + (s1 \div Base)
        s3 == a[3] + b[3] + (s2 \div Base)
        s4 == a[4] + b[4] + (s3 \div Base)
        s5 == a[5] + b[5] + (s4 \div Base)
        s6 == a[6] + b[6] + (s5 \div Base)
        s7 == a[7] + b[7] + (s6 \div Base)
        s8 == a[8] + b[8] + (s7 \div Base)
    IN  <<s1 % Base, s2 % Base, s3 % Base, s4 % Base,
          s5 % Base, s6 % Base, s7 % Base, s8 % Base>>

\* a + b does not fit a u128
AddOverflows(a, b) == Lt(Add(a, b), a)

\* a - b modulo 2^128 (limb by limb, the borrow passed upwards; \div
\* rounds down, so d \div Base is -1 exactly when a limb borrows)
wrapping_sub(a, b) ==
    LET d1 == a[1] - b[1]
        d2 == a[2] - b[2] + (d1 \div Base)
        d3 == a[3] - b[3] + (d2 \div Base)
        d4 == a[4] - b[4] + (d3 \div Base)
        d5 == a[5] - b[5] + (d4 \div Base)
        d6 == a[6] - b[6] + (d5 \div Base)
        d7 == a[7] - b[7] + (d6 \div Base)
        d8 == a[8] - b[8] + (d7 \div Base)
    IN  <<d1 % Base, d2 % Base, d3 % Base, d4 % Base,
          d5 % Base, d6 % Base, d7 % Base, d8 % Base>>

\* The operator `-` of u128 on a and b. Where b > a the outcome depends on
\* the build: with overflow checks (the debug profile) the operation panics
\* with `attempt to subtract with overflow`, without them (the release
\* profile) it yields a - b modulo 2^128.
Sub(a, b, overflow_checks) ==
    [panic |-> overflow_checks /\ Lt(a, b), value |-> wrapping_sub(a, b)]

\* a * s + c modulo 2^128, for small s and c (s, c <= 1000)
MulAdd(a, s, c) ==
    LET p1 == a[1] * s + c
        p2 == a[2] * s + (p1 \div Base)
        p3 == a[3] * s + (p2 \div Base)
        p4 == a[4] * s + (p3 \div Base)
        p5 == a[5] * s + (p4 \div Base)
        p6 == a[6] * s + (p5 \div Base)
        p7 == a[7] * s + (p6 \div Base)
        p8 == a[8] * s + (p7 \div Base)
    IN  <<p1 % Base, p2 % Base, p3 % Base, p4 % Base,
          p5 % Base, p6 % Base, p7 % Base, p8 % Base>>

\* The u128 written in the source as the decimal literal whose groups of
\* three digits are g: Dec(<<1, 000, 000>>) is 1_000_000.
RECURSIVE DecFrom(_, _, _)
DecFrom(g, i, acc) ==
    IF i > Len(g) THEN acc
    ELSE DecFrom(g, i + 1, MulAdd(acc, 1000, g[i]))

Dec(g) == DecFrom(g, 1, Zero)

\* number of bits of a limb: 0 for 0, else 1 + the position of its highest
\* set bit
BitLenInt(n) == CHOOSE b \in 0..16 : n < 2^b /\ (b = 0 \/ 2^(b - 1) <= n)

\* number of bits of a: 0 for 0, else 1 + the position of the highest set bit
BitLen(a) ==
    LET nonzero == {i \in 1..NumLimbs : a[i] # 0}
    IN  IF nonzero = {} THEN 0
        ELSE LET t == CHOOSE i \in nonzero : \A j \in nonzero : j <= i
             IN  16 * (t - 1) + BitLenInt(a[t])

\* 2^p, for p < 128
Pow2(p) ==
    LET limb(i) == IF i = (p \div 16) + 1 THEN 2^(p % 16) ELSE 0
    IN  <<limb(1), limb(2), limb(3), limb(4), limb(5), limb(6), limb(7), limb(8)>>

\* the low p bits of a (a modulo 2^p), for p <= 128
LowBits(a, p) ==
    LET limb(i) == IF 16 * i <= p THEN a[i]
                   ELSE IF 16 * (i - 1) >= p THEN 0
                   ELSE a[i] % 2^(p - 16 * (i - 1))
    IN  <<limb(1), limb(2), limb(3), limb(4), limb(5), limb(6), limb(7), limb(8)>>

\* u128::is_power_of_two
is_power_of_two(a) == a # Zero /\ a = Pow2(BitLen(a) - 1)

\* u128::next_power_of_two: the smallest power of two >= a (1 for 0);
\* defined for a <= 2^127
next_power_of_two(a) ==
    IF a = Zero THEN One
    ELSE IF is_power_of_two(a) THEN a
    ELSE Pow2(BitLen(a))

\* a % b for b a power of two (the only divisors the crate uses)
Rem(a, b) == The({ LowBits(x, p) : x \in {a}, p \in {BitLen(b) - 1} })

\* a is even
IsEven(a) == a[1] % 2 = 0

\* `a as T` for an unsigned T of the given width: the value modulo 2^bits
CastTo(a, bits) == LowBits(a, bits)

\* Ord::clamp on u128
clamp(v, lo, hi) == IF Lt(v, lo) THEN lo ELSE IF Gt(v, hi) THEN hi ELSE v

\* Ord::clamp on usize
clamp_usize(v, lo, hi) == IF v < lo THEN lo ELSE IF v > hi THEN hi ELSE v

\* acc * 10^n modulo 2^128
RECURSIVE TimesPow10(_, _)
TimesPow10(acc, n) ==
    IF n = 0 THEN acc
    ELSE IF n >= 3 THEN TimesPow10(MulAdd(acc, 1000, 0), n - 3)
    ELSE TimesPow10(MulAdd(acc, 10, 0), n - 1)

\* 10^n as a u128, for n <= 38
Pow10(n) == TimesPow10(One, n)

(***************************************************************************)
(* Order, Seed and the generator                                           *)
(***************************************************************************)
\* Order::new without the upper end of the clamp
Order_new_no_upper(input) == IF input < 45 THEN 45 ELSE input

\* Order::new
Order_new(input) == clamp_usize(input, 45, 65535)

\* Seed::new
Seed_new(input) ==
    clamp(input, Dec(<<1, 000, 000>>),
          Dec(<<340, 282, 366, 920, 938, 463, 463, 374, 607, 431, 768, 211, 455>>))

\* the seed used as it was given, even or odd
seed_as_given(seed) == seed

\* the seed incremented whether it is even or odd
odd_seed_always_adds(seed) == Add(seed, One)

\* `if seed.0 % 2 == 0 {seed.0 += 1}`
odd_seed(seed) == IF IsEven(seed) THEN Add(seed, One) ELSE seed

\* `2_u128.pow(120)`
Modulus == Pow2(120)

\* `alloc::vec![value; n]`
vec(value, n) == [i \in 1..n |-> value]

\* Acorn::new up to the construction of the struct: the seed made odd and
\* reduced, the vector of k copies of it
Acorn_fill(k, seed) ==
    LET m == Modulus
        s == Rem(odd_seed(seed), m)
    IN  [k |-> k, m |-> m, y |-> vec(s, k)]

\* the number of outputs Acorn::new cycles through
WarmUpSteps == 67

(***************************************************************************)
(* Every function of Acorn below returns a record                          *)
(*   self: the generator after the call                                    *)
(*   ret:  the value returned                                              *)
(*   raws: the outputs of generate_u128 the call consumed, in order        *)
(*   done: the call returned within MaxOpDraws outputs (its loops have no  *)
(*         bound in the source; the model follows them that far)           *)
(*   panic: the call panicked on an arithmetic overflow instead of         *)
(*         returning (ret is then meaningless)                             *)
(***************************************************************************)
MaxOpDraws == 12

\* the assignments storing `first` where the source stores `second`
u128_assign_first(st, index, first) ==
    [y |-> [st.y EXCEPT ![index] = first], first |-> first, second |-> first]

\* The assignments of the body of the for_each of generate_u128 at `index`,
\* given the new value of `first`:
\*     self.y[index-1] = second;
\*     second = first;
u128_assign(st, index, first) ==
    [y |-> [st.y EXCEPT ![index] = st.second], first |-> first, second |-> first]

\* the body of the for_each without the reduction `% self.m`
u128_body_unreduced(st, m, index) ==
    u128_assign(st, index, Add(st.second, st.y[index + 1]))

\* the body of the for_each adding the OLD value of the position below,
\* self.y[index-1], where the source adds `second`, its new value
u128_body_old_below(st, m, index) ==
    u128_assign(st, index, Rem(Add(st.y[index], st.y[index + 1]), m))

\* The body of the for_each of generate_u128 at `index`, on the locals
\* first and second and the vector y; y[index] of the source is
\* y[index + 1] here (tuples are indexed from 1):
\*     first = (second + self.y[index]) % self.m;
\*     self.y[index-1] = second;
\*     second = first;
u128_body(st, m, index) ==
    The({ u128_assign(s, i, Rem(Add(s.second, s.y[i + 1]), n)) :
          s \in {st}, n \in {m}, i \in {index} })

\* `(from..to).for_each(|index| ...)` of generate_u128: the iterations
\* from, from + 1, ..., to - 1 in this order.  The range is run as two
\* halves one after the other, which keeps the evaluation shallow.
RECURSIVE u128_for_each(_, _, _, _)
u128_then(half, m, mid, to) ==
    The({ u128_for_each(h, n, a, b) :
          h \in {half}, n \in {m}, a \in {mid}, b \in {to} })

u128_for_each(st, m, from, to) ==
    IF from >= to THEN st
    ELSE IF to = from + 1 THEN u128_body(st, m, from)
    ELSE u128_then(u128_for_each(st, m, from, (from + to) \div 2),
                   m, (from + to) \div 2, to)

\* the end of generate_u128, st being the locals after the for_each:
\*     self.y[self.k-1] = first;
\*     first
u128_return(self, st) ==
    The({ [self |-> [self EXCEPT !.y = [s.y EXCEPT ![self.k] = s.first]],
           ret |-> s.first, raws |-> <<s.first>>, done |-> TRUE, panic |-> FALSE] :
          s \in {st} })

\* Acorn::generate_u128
generate_u128(self) ==
    The({ u128_return(a,
                      u128_for_each([y |-> a.y, first |-> Zero, second |-> a.y[1]],
                                    a.m, 1, a.k)) :
          a \in {self} })

(***************************************************************************)
(* Sampling                                                                *)
(***************************************************************************)
\* Acorn::coin_flip_is_even: `self.generate_u128() % 2 == 0`
coin_flip_is_even(self) ==
    [generate_u128(self) EXCEPT !.ret = (Rem(@, FromInt(2)) = Zero)]

\* the redraw loop without its test: the first draw `% x` is returned
\* whether it exceeds upper_bound or not
zero_range_no_redraw(g, upper_bound, x, raws) ==
    [self |-> g.self, ret |-> Rem(g.ret, x), raws |-> Append(raws, g.ret),
     done |-> TRUE, panic |-> FALSE]

\* The test of the redraw loop of generate_from_zero_range on the output g
\* just drawn: `number = self.generate_u128() % x` is returned unless it
\* exceeds upper_bound.
RECURSIVE zero_range_loop(_, _, _, _)
zero_range_test(g, upper_bound, x, raws) ==
    IF Gt(Rem(g.ret, x), upper_bound)
    THEN IF Len(raws) + 1 >= MaxOpDraws
         THEN [self |-> g.self, ret |-> Zero, raws |-> Append(raws, g.ret),
               done |-> FALSE, panic |-> FALSE]
         ELSE zero_range_loop(g.self, upper_bound, x, Append(raws, g.ret))
    ELSE [self |-> g.self, ret |-> Rem(g.ret, x), raws |-> Append(raws, g.ret),
          done |-> TRUE, panic |-> FALSE]

\* The redraw loop of generate_from_zero_range:
\*     let mut number = self.generate_u128() % x;
\*     while number > upper_bound {number = self.generate_u128() % x;}
zero_range_loop(self, upper_bound, x, raws) ==
    zero_range_test(generate_u128(self), upper_bound, x, raws)

\* `let x = if upper_bound > 2_u128.pow(127) {2_u128.pow(127)}
\*          else {upper_bound.next_power_of_two()};`
zero_range_x(upper_bound) ==
    IF Gt(upper_bound, Pow2(127)) THEN Pow2(127)
    ELSE next_power_of_two(upper_bound)

\* the statement of the redraw loop with its assignment lost: the output is
\* drawn and reduced, and `number` keeps its value
zero_range_redraw_dropped(number, g, x) == number

\* the statement of the redraw loop, g being the output drawn:
\* `number = self.generate_u128() % x;`
zero_range_redraw(number, g, x) == Rem(g.ret, x)

\* Acorn::generate_from_zero_range
generate_from_zero_range(self, upper_bound) ==
    IF is_power_of_two(upper_bound)
    THEN [generate_u128(self) EXCEPT !.ret = Rem(@, upper_bound)]
    ELSE zero_range_loop(self, upper_bound, zero_range_x(upper_bound), <<>>)

\* `... + *range.start()` of generate_number_between_range, g being the
\* result of generate_from_zero_range: the sum panics where it does not fit
\* a u128 and the build checks overflow, and wraps otherwise
between_range_add(g, start, overflow_checks) ==
    [self |-> g.self, ret |-> Add(g.ret, start), raws |-> g.raws,
     done |-> g.done,
     panic |-> overflow_checks /\ g.done /\ AddOverflows(g.ret, start)]

\* generate_number_between_range, d being the outcome of
\* `*range.end() - *range.start()`: a panic of the subtraction ends the call
\* before any output is drawn
between_range_sample(self, start, d, overflow_checks) ==
    IF d.panic
    THEN [self |-> self, ret |-> Zero, raws |-> <<>>, done |-> TRUE,
          panic |-> TRUE]
    ELSE The({ between_range_add(g, start, overflow_checks) :
               g \in {generate_from_zero_range(self, d.value)} })

\* generate_number_between_range without `+ range.start()`
between_range_unshifted(self, start, end, overflow_checks) ==
    between_range_sample(self, Zero, Sub(end, start, overflow_checks),
                         overflow_checks)

\* generate_number_between_range sampling below `range.end()` instead of the
\* width `range.end() - range.start()`
between_range_end_as_width(self, start, end, overflow_checks) ==
    between_range_sample(self, start, Sub(end, Zero, overflow_checks),
                         overflow_checks)

\* Acorn::generate_number_between_range, on the range start..=end:
\* `self.generate_from_zero_range(range.end() - range.start()) + range.start()`
\* (overflow_checks: whether the build checks arithmetic overflow)
generate_number_between_range(self, start, end, overflow_checks) ==
    between_range_sample(self, start, Sub(end, start, overflow_checks),
                         overflow_checks)

\* `(0..upper_bound).collect()`
collect(upper_bound) == [i \in 1..upper_bound |-> i - 1]

\* `for _ in &indicies {coin_flips.push(self.coin_flip_is_even());}`, n
\* iterations being left; c is the coin flipped in push_flip
RECURSIVE push_flips(_, _, _, _)
push_flip(c, n, coin_flips, raws) ==
    The({ push_flips(d.self, n - 1, Append(coin_flips, d.ret), raws \o d.raws) :
          d \in {c} })

push_flips(self, n, coin_flips, raws) ==
    IF n = 0 THEN [self |-> self, coin_flips |-> coin_flips, raws |-> raws]
    ELSE push_flip(coin_flip_is_even(self), n, coin_flips, raws)

\* Vec::remove(index), index counted from 0
vec_remove(v, index) ==
    The({ SubSeq(w, 1, index) \o SubSeq(w, index + 2, Len(w)) : w \in {v} })

\* `coin_flips.into_iter().enumerate().for_each(|(index, heads)| {
\*      if heads {indicies.remove(index-offset); offset += 1;}})`
RECURSIVE remove_heads(_, _, _, _)
remove_heads(indicies, coin_flips, index, offset) ==
    IF index >= Len(coin_flips) THEN indicies
    ELSE IF coin_flips[index + 1]
         THEN remove_heads(vec_remove(indicies, index - offset), coin_flips,
                           index + 1, offset + 1)
         ELSE remove_heads(indicies, coin_flips, index + 1, offset)

\* a round that removes the heads even when every coin is heads
index_round_no_continue(indicies, coin_flips) ==
    remove_heads(indicies, coin_flips, 0, 0)

\* What one round of the while loop of generate_index makes of indicies,
\* the coins being flipped: nothing is removed when they are all heads or
\* all tails (`continue`), else the heads are removed
index_round(indicies, coin_flips) ==
    IF \/ \A i \in 1..Len(coin_flips) : coin_flips[i]
       \/ \A i \in 1..Len(coin_flips) : ~coin_flips[i]
    THEN indicies
    ELSE remove_heads(indicies, coin_flips, 0, 0)

\* The body of the while loop of generate_index after the coins f were
\* flipped
RECURSIVE index_loop(_, _, _)
index_flipped(f, indicies, raws) ==
    index_loop(f.self, index_round(indicies, f.coin_flips), raws \o f.raws)

\* The while loop of generate_index: `while indicies.len() > 1 {...}`, then
\* `indicies[0]`
index_loop(self, indicies, raws) ==
    IF Len(indicies) <= 1
    THEN [self |-> self, ret |-> indicies[1], raws |-> raws, done |-> TRUE, panic |-> FALSE]
    ELSE IF Len(raws) + Len(indicies) > MaxOpDraws
    THEN [self |-> self, ret |-> 0, raws |-> raws, done |-> FALSE, panic |-> FALSE]
    ELSE index_flipped(push_flips(self, Len(indicies), <<>>, <<>>), indicies, raws)

\* Acorn::generate_index (upper_bound >= 1; ret is a usize)
generate_index(self, upper_bound) == index_loop(self, collect(upper_bound), <<>>)

\* Acorn::generate_bounds
generate_bounds(length, num_type) ==
    CASE length = 2 -> <<Dec(<<10>>), Dec(<<99>>)>>
      [] length = 3 -> <<Dec(<<100>>), IF num_type = "U8" THEN Dec(<<255>>) ELSE Dec(<<999>>)>>
      [] length = 4 -> <<Dec(<<1, 000>>), Dec(<<9, 999>>)>>
      [] length = 5 -> <<Dec(<<10, 000>>),
                         IF num_type = "U16" THEN Dec(<<65, 535>>) ELSE Dec(<<99, 999>>)>>
      [] length = 6 -> <<Dec(<<100, 000>>), Dec(<<999, 999>>)>>
      [] length = 7 -> <<Dec(<<1, 000, 000>>), Dec(<<9, 999, 999>>)>>
      [] length = 8 -> <<Dec(<<10, 000, 000>>), Dec(<<99, 999, 999>>)>>
      [] length = 9 -> <<Dec(<<100, 000, 000>>), Dec(<<999, 999, 999>>)>>
      [] length = 10 -> <<Dec(<<1, 000, 000, 000>>),
                          IF num_type = "U32" THEN Dec(<<4, 294, 967, 295>>)
                          ELSE Dec(<<9, 999, 999, 999>>)>>
      [] length = 11 -> <<Dec(<<10, 000, 000, 000>>),
                          Dec(<<99, 999, 999, 999>>)>>
      [] length = 12 -> <<Dec(<<100, 000, 000, 000>>),
                          Dec(<<999, 999, 999, 999>>)>>
      [] length = 13 -> <<Dec(<<1, 000, 000, 000, 000>>),
                          Dec(<<9, 999, 999, 999, 999>>)>>
      [] length = 14 -> <<Dec(<<10, 000, 000, 000, 000>>),
                          Dec(<<99, 999, 999, 999, 999>>)>>
      [] length = 15 -> <<Dec(<<100, 000, 000, 000, 000>>),
                          Dec(<<999, 999, 999, 999, 999>>)>>
      [] length = 16 -> <<Dec(<<1, 000, 000, 000, 000, 000>>),
                          Dec(<<9, 999, 999, 999, 999, 999>>)>>
      [] length = 17 -> <<Dec(<<10, 000, 000, 000, 000, 000>>),
                          Dec(<<99, 999, 999, 999, 999, 999>>)>>
      [] length = 18 -> <<Dec(<<100, 000, 000, 000, 000, 000>>),
                          Dec(<<999, 999, 999, 999, 999, 999>>)>>
      [] length = 19 -> <<Dec(<<1, 000, 000, 000, 000, 000, 000>>),
                          Dec(<<9, 999, 999, 999, 999, 999, 999>>)>>
      [] length = 20 -> <<Dec(<<10, 000, 000, 000, 000, 000, 000>>),
                          IF num_type = "U64" THEN Dec(<<18, 446, 744, 073, 709, 551, 615>>)
                          ELSE Dec(<<99, 999, 999, 999, 999, 999, 999>>)>>
      [] length = 21 -> <<Dec(<<100, 000, 000, 000, 000, 000, 000>>),
                          Dec(<<999, 999, 999, 999, 999, 999, 999>>)>>
      [] length = 22 -> <<Dec(<<1, 000, 000, 000, 000, 000, 000, 000>>),
                          Dec(<<9, 999, 999, 999, 999, 999, 999, 999>>)>>
      [] length = 23 -> <<Dec(<<10, 000, 000, 000, 000, 000, 000, 000>>),
                          Dec(<<99, 999, 999, 999, 999, 999, 999, 999>>)>>
      [] length = 24 -> <<Dec(<<100, 000, 000, 000, 000, 000, 000, 000>>),
                          Dec(<<999, 999, 999, 999, 999, 999, 999, 999>>)>>
      [] length = 25 -> <<Dec(<<1, 000, 000, 000, 000, 000, 000, 000, 000>>),
                          Dec(<<9, 999, 999, 999, 999, 999, 999, 999, 999>>)>>
      [] length = 26 -> <<Dec(<<10, 000, 000, 000, 000, 000, 000, 000, 000>>),
                          Dec(<<99, 999, 999, 999, 999, 999, 999, 999, 999>>)>>
      [] length = 27 -> <<Dec(<<100, 000, 000, 000, 000, 000, 000, 000, 000>>),
                          Dec(<<999, 999, 999, 999, 999, 999, 999, 999, 999>>)>>
      [] length = 28 -> <<Dec(<<1, 000, 000, 000, 000, 000, 000, 000, 000, 000>>),
                          Dec(<<9, 999, 999, 999, 999, 999, 999, 999, 999, 999>>)>>
      [] length = 29 -> <<Dec(<<10, 000, 000, 000, 000, 000, 000, 000, 000, 000>>),
                          Dec(<<99, 999, 999, 999, 999, 999, 999, 999, 999, 999>>)>>
      [] length = 30 -> <<Dec(<<100, 000, 000, 000, 000, 000, 000, 000, 000, 000>>),
                          Dec(<<999, 999, 999, 999, 999, 999, 999, 999, 999, 999>>)>>
      [] length = 31 -> <<Dec(<<1, 000, 000, 000, 000, 000, 000, 000, 000, 000, 000>>),
                          Dec(<<9, 999, 999, 999, 999, 999, 999, 999, 999, 999, 999>>)>>
      [] length = 32 -> <<Dec(<<10, 000, 000, 000, 000, 000, 000, 000, 000, 000, 000>>),
                          Dec(<<99, 999, 999, 999, 999, 999, 999, 999, 999, 999, 999>>)>>
      [] length = 33 -> <<Dec(<<100, 000, 000, 000, 000, 000, 000, 000, 000, 000, 000>>),
                          Dec(<<999, 999, 999, 999, 999, 999, 999, 999, 999, 999, 999>>)>>
      [] length = 34 -> <<Dec(<<1, 000, 000, 000, 000, 000, 000, 000, 000, 000, 000, 000>>),
                          Dec(<<9, 999, 999, 999, 999, 999, 999, 999, 999, 999, 999, 999>>)>>
      [] length = 35 -> <<Dec(<<10, 000, 000, 000, 000, 000, 000, 000, 000, 000, 000, 000>>),
                          Dec(<<99, 999, 999, 999, 999, 999, 999, 999, 999, 999, 999, 999>>)>>
      [] length = 36 -> <<Dec(<<100, 000, 000, 000, 000, 000, 000, 000, 000, 000, 000, 000>>),
                          Dec(<<999, 999, 999, 999, 999, 999, 999, 999, 999, 999, 999, 999>>)>>
      [] length = 37 -> <<Dec(<<1, 000, 000, 000, 000, 000, 000, 000, 000, 000, 000, 000, 000>>),
                          Dec(<<9, 999, 999, 999, 999, 999, 999, 999, 999, 999, 999, 999, 999>>)>>
      [] length = 38 -> <<Dec(<<10, 000, 000, 000, 000, 000, 000, 000, 000, 000, 000, 000, 000>>),
                          Dec(<<99, 999, 999, 999, 999, 999, 999, 999, 999, 999, 999, 999, 999>>)>>
      [] length = 39 -> <<Dec(<<100, 000, 000, 000, 000, 000, 000, 000, 000, 000, 000, 000, 000>>),
                          U128Max>>

\* the number drawn from 0..=upper where the source draws from
\* lower..=upper
generate_below_upper(self, bounds, overflow_checks) ==
    generate_number_between_range(self, Zero, bounds[2], overflow_checks)

\* `self.generate_number_between_range(lower..=upper)` for the pair
\* (lower, upper) of generate_bounds
generate_within_bounds(self, bounds, overflow_checks) ==
    generate_number_between_range(self, bounds[1], bounds[2], overflow_checks)

\* generate_fixed_length_number selecting among 9 indices for the length 1
fixed_length_number_nine(self, length, num_type, overflow_checks) ==
    IF clamp_usize(length, 1, 39) = 1
    THEN [generate_index(self, 9) EXCEPT !.ret = FromInt(@)]
    ELSE generate_within_bounds(self,
                                generate_bounds(clamp_usize(length, 1, 39), num_type),
                                overflow_checks)

\* Acorn::generate_fixed_length_number
generate_fixed_length_number(self, length, num_type, overflow_checks) ==
    IF clamp_usize(length, 1, 39) = 1
    THEN [generate_index(self, 10) EXCEPT !.ret = FromInt(@)]
    ELSE generate_within_bounds(self,
                                generate_bounds(clamp_usize(length, 1, 39), num_type),
                                overflow_checks)

\* The test of the loop the narrow fixed-length functions share, on the
\* number r just generated: `while number > T::MAX`
RECURSIVE retry_above_max(_, _, _, _, _, _)
retry_test(r, length, num_type, type_max, raws, overflow_checks) ==
    IF ~r.done \/ r.panic THEN [r EXCEPT !.raws = raws \o @]
    ELSE IF Gt(r.ret, type_max)
    THEN IF Len(raws) + Len(r.raws) >= MaxOpDraws
         THEN [self |-> r.self, ret |-> Zero, raws |-> raws \o r.raws,
               done |-> FALSE, panic |-> FALSE]
         ELSE retry_above_max(r.self, length, num_type, type_max, raws \o r.raws,
                              overflow_checks)
    ELSE [r EXCEPT !.raws = raws \o @]

\* The loop the narrow fixed-length functions share:
\* `let mut number = self.generate_fixed_length_number(length, T);
\*  while number > T::MAX {number = self.generate_fixed_length_number(length, T);}`
retry_above_max(self, length, num_type, type_max, raws, overflow_checks) ==
    retry_test(generate_fixed_length_number(self, length, num_type, overflow_checks),
               length, num_type, type_max, raws, overflow_checks)

\* the width of usize (platform dependent; a 64-bit target)
UsizeBits == 64

\* `number as T` at the end of a function: the value returned is r.ret cast
\* to `bits` bits; the number before the cast is kept beside it
cast_result(r, bits) ==
    [self |-> r.self, ret |-> CastTo(r.ret, bits), number |-> r.ret,
     raws |-> r.raws, done |-> r.done, panic |-> r.panic]

\* a u128 returned as it is
u128_result(r) ==
    [self |-> r.self, ret |-> r.ret, number |-> r.ret,
     raws |-> r.raws, done |-> r.done, panic |-> r.panic]

\* T::MAX for the narrow types
U8Max == Dec(<<255>>)
U16Max == Dec(<<65, 535>>)
U32Max == Dec(<<4, 294, 967, 295>>)
U64Max == Dec(<<18, 446, 744, 073, 709, 551, 615>>)

\* Acorn::generate_fixed_length_usize
generate_fixed_length_usize(self, length, overflow_checks) ==
    cast_result(generate_fixed_length_number(self, length, "Usize", overflow_checks),
                UsizeBits)

\* Acorn::generate_fixed_length_u8
generate_fixed_length_u8(self, length, overflow_checks) ==
    cast_result(retry_above_max(self, clamp_usize(length, 1, 3), "U8", U8Max, <<>>,
                                overflow_checks),
                8)

\* Acorn::generate_fixed_length_u16
generate_fixed_length_u16(self, length, overflow_checks) ==
    cast_result(retry_above_max(self, clamp_usize(length, 1, 5), "U16", U16Max, <<>>,
                                overflow_checks),
                16)

\* Acorn::generate_fixed_length_u32
generate_fixed_length_u32(self, length, overflow_checks) ==
    cast_result(retry_above_max(self, clamp_usize(length, 1, 10), "U32", U32Max, <<>>,
                                overflow_checks),
                32)

\* Acorn::generate_fixed_length_u64
generate_fixed_length_u64(self, length, overflow_checks) ==
    cast_result(retry_above_max(self, clamp_usize(length, 1, 20), "U64", U64Max, <<>>,
                                overflow_checks),
                64)

\* Acorn::generate_fixed_length_u128
generate_fixed_length_u128(self, length, overflow_checks) ==
    u128_result(generate_fixed_length_number(self, length, "U128", overflow_checks))

\* Acorn::generate_usize_between_range (start and end are usize values)
generate_usize_between_range(self, start, end, overflow_checks) ==
    cast_result(generate_number_between_range(self, start, end,
                                              overflow_checks), UsizeBits)

\* Acorn::generate_u8_between_range
generate_u8_between_range(self, start, end, overflow_checks) ==
    cast_result(generate_number_between_range(self, start, end,
                                              overflow_checks), 8)

\* Acorn::generate_u16_between_range
generate_u16_between_range(self, start, end, overflow_checks) ==
    cast_result(generate_number_between_range(self, start, end,
                                              overflow_checks), 16)

\* Acorn::generate_u32_between_range
generate_u32_between_range(self, start, end, overflow_checks) ==
    cast_result(generate_number_between_range(self, start, end,
                                              overflow_checks), 32)

\* Acorn::generate_u64_between_range
generate_u64_between_range(self, start, end, overflow_checks) ==
    cast_result(generate_number_between_range(self, start, end,
                                              overflow_checks), 64)

\* Acorn::generate_u128_between_range
generate_u128_between_range(self, start, end, overflow_checks) ==
    u128_result(generate_number_between_range(self, start, end,
                                              overflow_checks))

(***************************************************************************)
(* The state machine: a caller that builds an Order and a Seed, constructs *)
(* a generator from them and then calls its functions one after another.   *)
(***************************************************************************)
VARIABLES
    pc,       \* "args": no generator yet; "new": inside Acorn::new;
              \* "idle": between calls; "returned": a call has just returned;
              \* "panicked": a call has panicked (the program has ended)
    ordIn,    \* the input of Order::new
    order,    \* the Order built (0: none yet)
    seedIn,   \* the input of Seed::new
    seed,     \* the Seed built (0: none yet)
    prng,     \* the Acorn struct: k, m, y
    warm,     \* the iterations done of the warm-up loop of Acorn::new
    op,       \* the call that has just returned
    ret,      \* the value it returned
    number,   \* the u128 it computed, before the cast to the type returned
    raws,     \* the outputs of generate_u128 in the last step, in order
    drawn,    \* the calls of generate_u128 since Acorn::new returned
    locals    \* the locals of the function a step of whose loop is followed
              \* ("index", "zero_range"): indicies, upper_bound, x, number

vars ==
    <<pc, ordIn, order, seedIn, seed, prng, warm, op, ret, number, raws, drawn,
      locals>>

\* Bounds of the exploration
MaxOrder == 46
MaxDraws == 4
MaxLength == 40

OrderInputs == {0, 1, 44, 45, 46, 47, 77, 65534, 65535, 65536, 1000000}

SeedInputs ==
    { FromInt(1), Dec(<<999, 999>>), Dec(<<1, 000, 000>>), Dec(<<777, 777, 777>>),
      Pow2(120), U128Max }

Lengths == 0..MaxLength

\* the ranges start..=end the range functions are called with
Ranges ==
    { <<Zero, Zero>>, <<FromInt(5), FromInt(5)>>, <<FromInt(3), FromInt(4)>>,
      <<Zero, FromInt(3)>>, <<Zero, FromInt(4)>>, <<Zero, U8Max>>,
      <<FromInt(71), U8Max>>, <<FromInt(71), FromInt(777)>>,
      <<FromInt(750), FromInt(777)>>, <<Zero, FromInt(9999)>>,
      <<FromInt(100), U16Max>>, <<FromInt(1), U32Max>>, <<Zero, U64Max>>,
      <<FromInt(10), Pow2(120)>>, <<Zero, Pow2(127)>>,
      <<Pow10(38), U128Max>>, <<Zero, U128Max>>, <<U128Max, U128Max>>,
      <<FromInt(5), FromInt(3)>>, <<FromInt(1), Zero>> }

RangesUpTo(type_max) ==
    { r \in Ranges : Le(r[1], type_max) /\ Le(r[2], type_max) }

NoAcorn == [k |-> 0, m |-> Zero, y |-> <<>>]
NoOp == [name |-> "none", length |-> 0, start |-> Zero, end |-> Zero]
NoLocals == [indicies |-> <<>>, upper_bound |-> Zero, x |-> Zero, number |-> Zero]

Init ==
    /\ pc = "args"
    /\ ordIn = 0 /\ order = 0
    /\ seedIn = Zero /\ seed = Zero
    /\ prng = NoAcorn
    /\ warm = 0
    /\ op = NoOp /\ ret = Zero /\ number = Zero /\ raws = <<>>
    /\ drawn = 0
    /\ locals = NoLocals

\* `Order::new(input)`
OrderNew(input) ==
    /\ pc = "args" /\ order = 0
    /\ ordIn' = input
    /\ order' = Order_new(input)
    /\ UNCHANGED <<pc, seedIn, seed, prng, warm, op, ret, number, raws, drawn, locals>>

\* `Seed::new(input)`
SeedNew(input) ==
    /\ pc = "args" /\ seed = Zero
    /\ seedIn' = input
    /\ seed' = Seed_new(input)
    /\ UNCHANGED <<pc, ordIn, order, prng, warm, op, ret, number, raws, drawn, locals>>

\* Acorn::new(order, seed) up to the struct being built; the inputs of the
\* two constructors are no longer of interest
AcornNew ==
    /\ pc = "args" /\ order # 0 /\ seed # Zero
    /\ order <= MaxOrder
    /\ prng' = Acorn_fill(order, seed)
    /\ pc' = "new"
    /\ warm' = 0
    /\ ordIn' = 0 /\ seedIn' = Zero
    /\ UNCHANGED <<order, seed, op, ret, number, raws, drawn, locals>>

\* one iteration of `(0..67).for_each(|_| {acorn.generate_u128();})`; after
\* the last one Acorn::new returns
WarmUp ==
    /\ pc = "new" /\ warm < WarmUpSteps
    /\ \E g \in {generate_u128(prng)} :
           /\ prng' = g.self
           /\ raws' = g.raws
    /\ warm' = warm + 1
    /\ pc' = "new"
    /\ UNCHANGED <<ordIn, order, seedIn, seed, op, ret, number, drawn, locals>>

\* Acorn::new returns the generator
AcornReturn ==
    /\ pc = "new" /\ warm >= WarmUpSteps
    /\ pc' = "idle"
    /\ raws' = <<>>
    /\ UNCHANGED <<ordIn, order, seedIn, seed, prng, warm, op, ret, number, drawn, locals>>

\* a call `name` with the given arguments returns r
Call(name, length, start, end, r) ==
    /\ pc = "idle" /\ drawn <= MaxDraws
    /\ r.done
    /\ prng' = r.self
    /\ ret' = IF r.panic THEN Zero ELSE r.ret
    /\ number' = IF r.panic THEN Zero ELSE r.number
    /\ raws' = r.raws
    /\ drawn' = drawn + Len(r.raws)
    /\ op' = [name |-> name, length |-> length, start |-> start, end |-> end]
    /\ pc' = IF r.panic THEN "panicked" ELSE "returned"
    /\ UNCHANGED <<ordIn, order, seedIn, seed, warm, locals>>

\* `prng.generate_u128()`
GenerateU128 ==
    Call("generate_u128", 0, Zero, Zero, u128_result(generate_u128(prng)))

GenerateFixedLengthUsize ==
    \E length \in Lengths, overflow_checks \in BOOLEAN :
        Call("generate_fixed_length_usize", length, Zero, Zero,
             generate_fixed_length_usize(prng, length, overflow_checks))

GenerateFixedLengthU8 ==
    \E length \in Lengths, overflow_checks \in BOOLEAN :
        Call("generate_fixed_length_u8", length, Zero, Zero,
             generate_fixed_length_u8(prng, length, overflow_checks))

GenerateFixedLengthU16 ==
    \E length \in Lengths, overflow_checks \in BOOLEAN :
        Call("generate_fixed_length_u16", length, Zero, Zero,
             generate_fixed_length_u16(prng, length, overflow_checks))

GenerateFixedLengthU32 ==
    \E length \in Lengths, overflow_checks \in BOOLEAN :
        Call("generate_fixed_length_u32", length, Zero, Zero,
             generate_fixed_length_u32(prng, length, overflow_checks))

GenerateFixedLengthU64 ==
    \E length \in Lengths, overflow_checks \in BOOLEAN :
        Call("generate_fixed_length_u64", length, Zero, Zero,
             generate_fixed_length_u64(prng, length, overflow_checks))

GenerateFixedLengthU128 ==
    \E length \in Lengths, overflow_checks \in BOOLEAN :
        Call("generate_fixed_length_u128", length, Zero, Zero,
             generate_fixed_length_u128(prng, length, overflow_checks))

GenerateUsizeBetweenRange ==
    \E r \in RangesUpTo(U64Max), overflow_checks \in BOOLEAN :
        Call("generate_usize_between_range", 0, r[1], r[2],
             generate_usize_between_range(prng, r[1], r[2], overflow_checks))

GenerateU8BetweenRange ==
    \E r \in RangesUpTo(U8Max), overflow_checks \in BOOLEAN :
        Call("generate_u8_between_range", 0, r[1], r[2],
             generate_u8_between_range(prng, r[1], r[2], overflow_checks))

GenerateU16BetweenRange ==
    \E r \in RangesUpTo(U16Max), overflow_checks \in BOOLEAN :
        Call("generate_u16_between_range", 0, r[1], r[2],
             generate_u16_between_range(prng, r[1], r[2], overflow_checks))

GenerateU32BetweenRange ==
    \E r \in RangesUpTo(U32Max), overflow_checks \in BOOLEAN :
        Call("generate_u32_between_range", 0, r[1], r[2],
             generate_u32_between_range(prng, r[1], r[2], overflow_checks))

GenerateU64BetweenRange ==
    \E r \in RangesUpTo(U64Max), overflow_checks \in BOOLEAN :
        Call("generate_u64_between_range", 0, r[1], r[2],
             generate_u64_between_range(prng, r[1], r[2], overflow_checks))

GenerateU128BetweenRange ==
    \E r \in Ranges, overflow_checks \in BOOLEAN :
        Call("generate_u128_between_range", 0, r[1], r[2],
             generate_u128_between_range(prng, r[1], r[2], overflow_checks))

\* the caller is done with the value returned
Discard ==
    /\ pc = "returned"
    /\ pc' = "idle"
    /\ op' = NoOp /\ ret' = Zero /\ number' = Zero /\ raws' = <<>>
    /\ UNCHANGED <<ordIn, order, seedIn, seed, prng, warm, drawn, locals>>

Next ==
    \/ \E input \in OrderInputs : OrderNew(input)
    \/ \E input \in SeedInputs : SeedNew(input)
    \/ AcornNew
    \/ WarmUp
    \/ AcornReturn
    \/ GenerateU128
    \/ GenerateFixedLengthUsize
    \/ GenerateFixedLengthU8
    \/ GenerateFixedLengthU16
    \/ GenerateFixedLengthU32
    \/ GenerateFixedLengthU64
    \/ GenerateFixedLengthU128
    \/ GenerateUsizeBetweenRange
    \/ GenerateU8BetweenRange
    \/ GenerateU16BetweenRange
    \/ GenerateU32BetweenRange
    \/ GenerateU64BetweenRange
    \/ GenerateU128BetweenRange
    \/ Discard

Spec == Init /\ [][Next]_vars

(***************************************************************************)
(* The generator modulo 2^bits                                             *)
(*                                                                         *)
(* The loops of generate_index and generate_from_zero_range have no bound  *)
(* in the source, and the generator does not come back to a state within   *)
(* any number of outputs that can be followed (its vector has k elements   *)
(* of 120 bits).  generate_index reads bit 0 of each output only, and      *)
(* generate_from_zero_range on upper_bound reads the bits below x only.    *)
(* Every element of y is a sum modulo 2^120 of elements of y, so the low   *)
(* `bits` bits of the vector after a pass are the pass applied to the low  *)
(* `bits` bits of the vector before it, with the modulus 2^bits: the       *)
(* generator kept modulo 2^bits gives exactly the low bits of every output *)
(* of the generator, it has finitely many states, and the loops are        *)
(* followed on it step by step, for as long as they run.                   *)
(***************************************************************************)
\* the bits kept of each element where generate_from_zero_range is followed
LowWidth == 3

\* the generator a with each element, and the modulus, kept modulo 2^bits
Low(a, bits) ==
    [k |-> a.k, m |-> Pow2(bits),
     y |-> [i \in 1..Len(a.y) |-> Rem(a.y[i], Pow2(bits))]]

\* the upper bounds generate_index is followed on (10 is the one
\* generate_fixed_length_number passes, 15 the one of the test new_index)
IndexUpperBounds == {1, 2, 3, 10, 15}

\* the upper bounds generate_from_zero_range is followed on: 0, a power of
\* two, and those from 5 to 2^LowWidth - 2 that are no power of two (an
\* output reduced modulo x can exceed them)
ZeroRangeBounds ==
    {Zero, FromInt(4)} \cup
    { FromInt(u) : u \in { v \in 5..(2^LowWidth - 2) : v # 8 /\ v # 16 } }

\* the seeds of the generators kept modulo 2^bits
LowSeedInputs == { Dec(<<1, 000, 000>>), U128Max }

\* Acorn::new(order, seed) up to the struct being built, kept modulo 2^bits
LowAcornNew(bits) ==
    /\ pc = "args" /\ order # 0 /\ seed # Zero
    /\ order <= MaxOrder
    /\ prng' = Low(Acorn_fill(order, seed), bits)
    /\ pc' = "new"
    /\ warm' = 0
    /\ ordIn' = 0 /\ seedIn' = Zero
    /\ UNCHANGED <<order, seed, op, ret, number, raws, drawn, locals>>

\* `prng.generate_u128()`; the outputs are not counted
Advance ==
    /\ pc = "idle"
    /\ \E g \in {generate_u128(prng)} :
           /\ prng' = g.self
           /\ ret' = g.ret /\ number' = g.ret
           /\ raws' = g.raws
    /\ op' = [NoOp EXCEPT !.name = "generate_u128"]
    /\ pc' = "returned"
    /\ UNCHANGED <<ordIn, order, seedIn, seed, warm, drawn, locals>>

\* generate_index(upper_bound) is called:
\* `let mut indicies: Vec<usize> = (0..upper_bound).collect();`
IndexCall(upper_bound) ==
    /\ pc = "idle"
    /\ locals' = [NoLocals EXCEPT !.indicies = collect(upper_bound)]
    /\ op' = [NoOp EXCEPT !.name = "generate_index", !.length = upper_bound]
    /\ raws' = <<>>
    /\ pc' = "index"
    /\ UNCHANGED <<ordIn, order, seedIn, seed, prng, warm, ret, number, drawn>>

\* one iteration of `while indicies.len() > 1 {...}`: a coin is flipped for
\* each index, and the heads are removed unless all or none are heads
IndexRound ==
    /\ pc = "index" /\ Len(locals.indicies) > 1
    /\ \E f \in {push_flips(prng, Len(locals.indicies), <<>>, <<>>)} :
           /\ prng' = f.self
           /\ raws' = f.raws
           /\ locals' = [locals EXCEPT !.indicies = index_round(@, f.coin_flips)]
    /\ pc' = "index"
    /\ UNCHANGED <<ordIn, order, seedIn, seed, warm, op, ret, number, drawn>>

\* the loop of generate_index is left: `indicies[0]` is returned (raws
\* keeps the outputs of the last round)
IndexReturn ==
    /\ pc = "index" /\ ~(Len(locals.indicies) > 1)
    /\ ret' = FromInt(locals.indicies[1])
    /\ number' = FromInt(locals.indicies[1])
    /\ locals' = NoLocals
    /\ pc' = "returned"
    /\ UNCHANGED <<ordIn, order, seedIn, seed, prng, warm, op, raws, drawn>>

\* generate_from_zero_range(upper_bound) is called: it returns at once when
\* upper_bound is a power of two, else x is computed and the first number
\* drawn
ZeroRangeCall(upper_bound) ==
    /\ pc = "idle"
    /\ op' = [NoOp EXCEPT !.name = "generate_from_zero_range", !.end = upper_bound]
    /\ \E g \in {generate_u128(prng)} :
           /\ prng' = g.self
           /\ raws' = g.raws
           /\ IF is_power_of_two(upper_bound)
              THEN /\ ret' = Rem(g.ret, upper_bound)
                   /\ number' = Rem(g.ret, upper_bound)
                   /\ locals' = NoLocals
                   /\ pc' = "returned"
              ELSE /\ locals' = [indicies |-> <<>>, upper_bound |-> upper_bound,
                                 x |-> zero_range_x(upper_bound),
                                 number |-> Rem(g.ret, zero_range_x(upper_bound))]
                   /\ pc' = "zero_range"
                   /\ UNCHANGED <<ret, number>>
    /\ UNCHANGED <<ordIn, order, seedIn, seed, warm, drawn>>

\* one iteration of `while number > upper_bound {...}`; raws keeps the output
\* that was rejected and the one drawn
ZeroRangeRedraw ==
    /\ pc = "zero_range" /\ Gt(locals.number, locals.upper_bound)
    /\ \E g \in {generate_u128(prng)} :
           /\ prng' = g.self
           /\ raws' = <<raws[Len(raws)]>> \o g.raws
           /\ locals' = [locals EXCEPT !.number = zero_range_redraw(@, g, locals.x)]
    /\ pc' = "zero_range"
    /\ UNCHANGED <<ordIn, order, seedIn, seed, warm, op, ret, number, drawn>>

\* the loop of generate_from_zero_range is left: `number` is returned
ZeroRangeReturn ==
    /\ pc = "zero_range" /\ ~Gt(locals.number, locals.upper_bound)
    /\ ret' = locals.number
    /\ number' = locals.number
    /\ locals' = NoLocals
    /\ pc' = "returned"
    /\ UNCHANGED <<ordIn, order, seedIn, seed, prng, warm, op, raws, drawn>>

\* what the two specifications of a generator kept modulo 2^bits share
LowNext(bits) ==
    \/ \E input \in OrderInputs : OrderNew(input)
    \/ \E input \in LowSeedInputs : SeedNew(input)
    \/ LowAcornNew(bits)
    \/ WarmUp
    \/ AcornReturn
    \/ Advance
    \/ Discard

\* generate_index on the generator modulo 2: its coin flips are those of
\* the generator.  A loop that can go on does go on (it is one thread), and
\* a function that can return does.
NextCoin ==
    \/ LowNext(1)
    \/ \E upper_bound \in IndexUpperBounds : IndexCall(upper_bound)
    \/ IndexRound
    \/ IndexReturn

SpecCoin ==
    Init /\ [][NextCoin]_vars /\ WF_vars(IndexRound) /\ WF_vars(IndexReturn)

\* generate_from_zero_range on the generator modulo 2^LowWidth, for upper
\* bounds below 2^LowWidth: its numbers are those of the generator
NextLow ==
    \/ LowNext(LowWidth)
    \/ \E upper_bound \in ZeroRangeBounds : ZeroRangeCall(upper_bound)
    \/ ZeroRangeRedraw
    \/ ZeroRangeReturn

SpecLow ==
    Init /\ [][NextLow]_vars /\ WF_vars(ZeroRangeRedraw) /\ WF_vars(ZeroRangeReturn)


(***************************************************************************)
(* Properties                                                              *)
(***************************************************************************)
RangeOps ==
    { "generate_usize_between_range", "generate_u8_between_range",
      "generate_u16_between_range", "generate_u32_between_range",
      "generate_u64_between_range", "generate_u128_between_range" }

FixedOps ==
    { "generate_fixed_length_u8", "generate_fixed_length_u16",
      "generate_fixed_length_u32", "generate_fixed_length_u64",
      "generate_fixed_length_u128" }

\* the call `name` has just returned
Returned(name) == pc = "returned" /\ op.name = name

\* D_T and T::MAX of the type T a fixed-length function returns
DigitsOf(name) ==
    CASE name = "generate_fixed_length_u8" -> 3
      [] name = "generate_fixed_length_u16" -> 5
      [] name = "generate_fixed_length_u32" -> 10
      [] name = "generate_fixed_length_u64" -> 20
      [] OTHER -> 39

MaxOf(name) ==
    CASE name = "generate_fixed_length_u8" -> U8Max
      [] name = "generate_fixed_length_u16" -> U16Max
      [] name = "generate_fixed_length_u32" -> U32Max
      [] name = "generate_fixed_length_u64" -> U64Max
      [] OTHER -> U128Max

\* L = clamp(length, 1, digits)
ClampedLength(length, digits) ==
    IF length < 1 THEN 1 ELSE IF length > digits THEN digits ELSE length

\* v has exactly L decimal digits (a value of 0..9 for L = 1; 10^39 exceeds
\* every u128)
HasDigits(v, L) ==
    IF L = 1 THEN Le(v, FromInt(9))
    ELSE Le(Pow10(L - 1), v) /\ (L < 39 => Lt(v, Pow10(L)))

\* the generator a is the state Acorn::new starts from for (k, sd)
IsFilled(a, k, sd) ==
    /\ a.k = k
    /\ a.m = Pow2(120)
    /\ Len(a.y) = k
    /\ \A i \in 1..k :
           a.y[i] = LowBits(IF sd[1] % 2 = 1 THEN sd ELSE Add(sd, One), 120)

\* b is a after one pass of the State Engine, which returned out: position
\* 0 is kept, every later position is the sum of the NEW value below it
\* and its own old value, modulo m
IsPass(a, b, out) ==
    /\ b.k = a.k
    /\ b.m = a.m
    /\ Len(b.y) = Len(a.y)
    /\ b.y[1] = a.y[1]
    /\ \A i \in 2..a.k : b.y[i] = Rem(Add(b.y[i - 1], a.y[i]), a.m)
    /\ out = b.y[a.k]

\* the vector y the test new_acorn of the crate expects of
\* Acorn::new(Order::new(45), Seed::new(1_000_000))
NewAcornY ==
    <<Dec(<<1, 000, 001>>),
       Dec(<<68, 000, 068>>),
       Dec(<<2, 346, 002, 346>>),
       Dec(<<54, 740, 054, 740>>),
       Dec(<<971, 635, 971, 635>>),
       Dec(<<13, 991, 557, 991, 544>>),
       Dec(<<170, 230, 622, 230, 452>>),
       Dec(<<1, 799, 580, 863, 579, 064>>),
       Dec(<<16, 871, 070, 596, 053, 725>>),
       Dec(<<142, 466, 818, 366, 675, 900>>),
       Dec(<<1, 096, 994, 501, 423, 404, 430>>),
       Dec(<<7, 778, 688, 282, 820, 504, 140>>),
       Dec(<<51, 209, 697, 861, 901, 652, 255>>),
       Dec(<<315, 136, 602, 227, 087, 090, 800>>),
       Dec(<<1, 823, 290, 341, 456, 718, 168, 200>>),
       Dec(<<9, 967, 320, 533, 296, 725, 986, 160>>),
       Dec(<<51, 705, 475, 266, 476, 766, 053, 205>>),
       Dec(<<255, 485, 877, 787, 296, 961, 674, 660>>),
       Dec(<<1, 206, 461, 089, 551, 124, 541, 241, 450>>),
       Dec(<<5, 460, 823, 879, 020, 879, 502, 461, 300>>),
       Dec(<<23, 754, 583, 873, 740, 825, 835, 706, 655>>),
       Dec(<<99, 543, 018, 137, 580, 603, 502, 008, 840>>),
       Dec(<<402, 696, 755, 192, 939, 714, 167, 217, 580>>),
       Dec(<<1, 575, 769, 911, 624, 546, 707, 610, 851, 400>>),
       Dec(<<5, 974, 794, 248, 243, 072, 933, 024, 478, 225>>),
       Dec(<<21, 987, 242, 833, 534, 508, 393, 530, 079, 868>>),
       Dec(<<78, 646, 676, 289, 181, 126, 176, 857, 593, 374>>),
       Dec(<<273, 806, 947, 080, 852, 809, 652, 763, 473, 228>>),
       Dec(<<928, 987, 856, 167, 179, 175, 607, 590, 355, 595>>),
       Dec(<<3, 075, 270, 144, 553, 420, 719, 252, 712, 901, 280>>),
       Dec(<<9, 943, 373, 467, 389, 393, 658, 917, 105, 047, 472>>),
       Dec(<<31, 433, 890, 316, 263, 244, 470, 125, 041, 762, 976>>),
       Dec(<<97, 248, 598, 165, 939, 412, 579, 449, 347, 954, 207>>),
       Dec(<<294, 692, 721, 714, 967, 916, 907, 422, 266, 527, 900>>),
       Dec(<<875, 410, 732, 153, 287, 047, 283, 813, 203, 509, 350>>),
       Dec(<<2, 551, 196, 990, 846, 722, 252, 084, 255, 621, 655, 820>>),
       Dec(<<7, 299, 258, 057, 144, 788, 665, 685, 509, 139, 737, 485>>),
       Dec(<<20, 516, 833, 457, 920, 487, 060, 305, 214, 879, 262, 120>>),
       Dec(<<56, 691, 250, 344, 253, 977, 403, 474, 935, 850, 592, 700>>),
       Dec(<<154, 083, 911, 192, 074, 912, 942, 778, 030, 773, 405, 800>>),
       Dec(<<412, 174, 462, 438, 800, 392, 121, 931, 232, 318, 860, 515>>),
       Dec(<<1, 085, 727, 852, 277, 815, 667, 052, 892, 026, 596, 022, 820>>),
       Dec(<<159, 266, 291, 722, 594, 628, 210, 605, 662, 748, 036, 738>>),
       Dec(<<561, 986, 792, 288, 604, 382, 969, 433, 911, 713, 622, 420>>),
       Dec(<<904, 174, 045, 811, 170, 833, 414, 601, 003, 987, 414, 337>>)>>

\* C1 (determinism of two generators built from the same order and seed)
\* compares two runs; it is not stated here: every function of the crate is
\* an operator of its arguments in this model, and the source reads nothing
\* but its arguments.

\* C2: a typed range function called on lo..=hi (lo <= hi) in any state
\* returns a value v with lo <= v <= hi, and the cast to the type returned
\* loses nothing: v is the u128 that was computed.
C2_RangeContainment ==
    (pc = "returned" /\ op.name \in RangeOps /\ Le(op.start, op.end)) =>
        /\ Le(op.start, ret)
        /\ Le(ret, op.end)
        /\ ret = number

\* C2 case: a u8 range with more than one value, served after a redraw
C2_Witness ==
    /\ Returned("generate_u8_between_range")
    /\ Lt(op.start, op.end)
    /\ Len(raws) >= 2
    /\ Le(op.start, ret) /\ Le(ret, op.end)

\* C3: generate_fixed_length_T(length), T one of u8, u16, u32, u64, u128,
\* returns for L = clamp(length, 1, D_T) a value of 0..9 when L = 1 and
\* otherwise a value of 10^(L-1) .. min(10^L - 1, T::MAX): it has exactly L
\* digits and fits T.
C3_FixedDigitLength ==
    (pc = "returned" /\ op.name \in FixedOps) =>
        /\ HasDigits(ret, ClampedLength(op.length, DigitsOf(op.name)))
        /\ Le(ret, MaxOf(op.name))
        /\ ret = number

\* C3 case: the length 0, served as L = 1 by a value of 0..9
C3_Witness ==
    /\ Returned("generate_fixed_length_u8")
    /\ op.length = 0
    /\ Le(ret, FromInt(9))

\* C4: generate_fixed_length_usize(length) returns, usize being 64 bits
\* wide, the number generate_fixed_length_number produced for
\* L = clamp(length, 1, 39), and that value has exactly L digits.
C4_UsizeFixedLength ==
    Returned("generate_fixed_length_usize") =>
        /\ ret = number
        /\ HasDigits(ret, ClampedLength(op.length, 39))

\* C5: Acorn::new(order, seed) fills `order` slots with
\* s = (seed if odd, else seed + 1) mod 2^120, fixes the modulus at 2^120,
\* and then makes exactly 67 passes of the State Engine and nothing else;
\* for order 45 and seed 1_000_000 that is the vector of the test new_acorn.
C5_ConstructionStep ==
    /\ (pc = "args" /\ pc' = "new") => (warm' = 0 /\ IsFilled(prng', order, seed))
    /\ (pc = "new" /\ pc' = "new") =>
           (warm' = warm + 1 /\ warm' <= 67 /\ IsPass(prng, prng', raws'[1]))
    /\ (pc = "new" /\ pc' = "idle") => (warm = 67 /\ prng' = prng)
    /\ (pc = "new") => pc' \in {"new", "idle"}

C5_Construction ==
    /\ [][C5_ConstructionStep]_vars
    /\ []((pc = "idle" /\ drawn = 0 /\ order = 45 /\ seed = Dec(<<1, 000, 000>>))
             => prng = [k |-> 45, m |-> Pow2(120), y |-> NewAcornY])

\* C5 case: Acorn::new has returned for an even seed that was clamped
C5_Witness ==
    /\ pc = "idle" /\ drawn = 0 /\ warm = 67
    /\ order = 45 /\ seed = Dec(<<1, 000, 000>>)
    /\ prng.y[1] = Dec(<<1, 000, 001>>)
    /\ prng.y[45] = Dec(<<904, 174, 045, 811, 170, 833, 414, 601, 003, 987, 414, 337>>)

\* C6: on the generator Acorn::new(Order::new(45), Seed::new(1_000_000)),
\* the first call of a range function on 71..=777 returns 419: the first
\* output modulo 1024 is 348, accepted without a redraw.
C6_Scenario ==
    ( /\ pc = "returned" /\ op.name \in RangeOps
      /\ op.start = FromInt(71) /\ op.end = FromInt(777)
      /\ order = 45 /\ seed = Dec(<<1, 000, 000>>)
      /\ drawn = Len(raws) ) =>
        /\ ret = FromInt(419)
        /\ Len(raws) = 1
        /\ LowBits(raws[1], 10) = FromInt(348)

\* C6 case: that first call has returned
C6_Witness ==
    /\ Returned("generate_u128_between_range")
    /\ op.start = FromInt(71) /\ op.end = FromInt(777)
    /\ order = 45 /\ seed = Dec(<<1, 000, 000>>)
    /\ drawn = 1
    /\ raws = <<Dec(<<707, 329, 019, 109, 624, 976, 857, 103, 382, 873, 185, 628>>)>>

\* C7: Order::new(x) is 45 for x < 45, 65535 for x > 65535, else x;
\* Seed::new(x) is 1_000_000 for x < 1_000_000, else x; neither rejects an
\* input: each yields a value of its range for every input.
C7_Clamping ==
    pc = "args" =>
        /\ order # 0 =>
               order = (IF ordIn < 45 THEN 45 ELSE IF ordIn > 65535 THEN 65535 ELSE ordIn)
        /\ seed # Zero =>
               seed = (IF Lt(seedIn, Dec(<<1, 000, 000>>)) THEN Dec(<<1, 000, 000>>)
                       ELSE seedIn)
        /\ \A x \in OrderInputs : Order_new(x) \in 45..65535
        /\ \A x \in SeedInputs : Le(Dec(<<1, 000, 000>>), Seed_new(x))

\* C7 case: an order above the maximum and a seed below the minimum
C7_Witness ==
    /\ pc = "args"
    /\ ordIn = 65536 /\ order = 65535
    /\ seedIn = FromInt(1) /\ seed = Dec(<<1, 000, 000>>)

\* C8: in every state of a generator (during the warm-up, after
\* construction, after draws of any kind) the history holds exactly `order`
\* elements, each below the modulus, and every output of the State Engine
\* is below the modulus.
C8_HistoryInvariant ==
    pc \in {"new", "idle", "returned"} =>
        /\ prng.k = order
        /\ Len(prng.y) = order
        /\ \A i \in 1..Len(prng.y) : Lt(prng.y[i], prng.m)
        /\ \A j \in 1..Len(raws) : Lt(raws[j], prng.m)

\* C8 case: after a fixed-length draw that used several outputs, with an
\* element of the history in the upper half below the modulus
C8_Witness ==
    /\ pc = "returned" /\ op.name \in FixedOps
    /\ Len(raws) >= 2
    /\ \E i \in 1..Len(prng.y) : Le(Pow2(119), prng.y[i])

\* C9: one call of generate_u128 on the history y of length k leaves y'
\* with y'[i] = (y'[i-1] + y[i]) mod m for i in 1..k-1, returns y'[k-1],
\* makes one such pass only and changes neither the order nor the modulus.
C9_StateEngineStep ==
    [][ ( \/ (pc = "new" /\ pc' = "new")
          \/ (pc = "idle" /\ pc' = "returned" /\ op'.name = "generate_u128") ) =>
            /\ Len(raws') = 1
            /\ IsPass(prng, prng', raws'[1])
            /\ (pc' = "returned" => ret' = raws'[1]) ]_vars

\* C9 case: generate_u128 has returned the new last element, after an
\* earlier draw
C9_Witness ==
    /\ Returned("generate_u128")
    /\ drawn >= 2
    /\ ret = prng.y[prng.k]
    /\ ret # prng.y[prng.k - 1]

\* C10: a range function on lo..=hi, lo <= hi, with width = hi - lo and x the smallest
\* power of two >= width + 1, returns lo + (raw mod x) for the first output
\* raw it draws whose residue modulo x does not exceed width.
C10_SamplerExactness ==
    (Returned("generate_u128_between_range") /\ Le(op.start, op.end)) =>
        /\ \A j \in 1..(Len(raws) - 1) :
               Gt(LowBits(raws[j], BitLen(wrapping_sub(op.end, op.start))),
                  wrapping_sub(op.end, op.start))
        /\ Le(LowBits(raws[Len(raws)], BitLen(wrapping_sub(op.end, op.start))),
              wrapping_sub(op.end, op.start))
        /\ ret = Add(op.start,
                     LowBits(raws[Len(raws)], BitLen(wrapping_sub(op.end, op.start))))


\* hi - lo, for lo <= hi
WidthOf(lo, hi) == wrapping_sub(hi, lo)

\* the number of decimal digits of v (1 for 0)
DigitLen(v) == CHOOSE L \in 1..39 : HasDigits(v, L)

\* the offset the from-zero sampler makes of the output raw for the width w:
\* raw modulo w when w is a power of two, else raw modulo the smallest power
\* of two above w (2^127 when that is no u128)
OffsetOf(raw, w) ==
    IF is_power_of_two(w) THEN LowBits(raw, BitLen(w) - 1)
    ELSE LowBits(raw, IF BitLen(w) > 127 THEN 127 ELSE BitLen(w))

\* value is what ONE call of the from-zero sampler on hi - lo makes of the
\* outputs rs, and rs is all it consumed: every output but the last was
\* rejected (its offset exceeds the width), the last was accepted, and
\* value is lo plus its offset; nothing else was drawn, so no coin was
\* flipped
OneSamplerCall(lo, hi, value, rs) ==
    /\ Len(rs) >= 1
    /\ is_power_of_two(WidthOf(lo, hi)) => Len(rs) = 1
    /\ \A j \in 1..(Len(rs) - 1) :
           Gt(OffsetOf(rs[j], WidthOf(lo, hi)), WidthOf(lo, hi))
    /\ ~is_power_of_two(WidthOf(lo, hi)) =>
           Le(OffsetOf(rs[Len(rs)], WidthOf(lo, hi)), WidthOf(lo, hi))
    /\ value = Add(lo, OffsetOf(rs[Len(rs)], WidthOf(lo, hi)))

\* C11 as stated: a range lo..=hi, lo <= hi, whose bounds have different digit lengths is
\* served by one candidate per digit length and then coin flips among the
\* candidates (so it consumes at least one output per candidate and one per
\* coin of the first round); bounds of equal digit length are served by a
\* single sampler call and no coin flip.
C11_MultiLengthAssembly ==
    (pc = "returned" /\ op.name \in RangeOps /\ Le(op.start, op.end)) =>
        IF DigitLen(op.start) # DigitLen(op.end)
        THEN Len(raws) >= 2 * (DigitLen(op.end) - DigitLen(op.start) + 1)
        ELSE OneSamplerCall(op.start, op.end, number, raws)

\* C11 as amended: every range lo..=hi, lo <= hi, whatever the digit lengths of its
\* bounds, is served by a single call of the from-zero sampler on hi - lo,
\* to whose result lo is added: no candidate per digit length, no coin flip.
C11_SingleSamplerCall ==
    (pc = "returned" /\ op.name \in RangeOps /\ Le(op.start, op.end)) =>
        OneSamplerCall(op.start, op.end, number, raws)

\* C11 case: 0..=9999, whose bounds have 1 and 4 digits, served by one output
C11_Witness ==
    /\ Returned("generate_u16_between_range")
    /\ op.start = Zero /\ op.end = FromInt(9999)
    /\ DigitLen(op.start) = 1 /\ DigitLen(op.end) = 4
    /\ raws = <<Dec(<<707, 329, 019, 109, 624, 976, 857, 103, 382, 873, 185, 628>>)>>
    /\ ret = FromInt(7516)

\* the fixed-length functions, generate_fixed_length_usize included
AllFixedOps == FixedOps \cup {"generate_fixed_length_usize"}

\* the NumType a fixed-length function passes on
NumTypeOf(name) ==
    CASE name = "generate_fixed_length_u8" -> "U8"
      [] name = "generate_fixed_length_u16" -> "U16"
      [] name = "generate_fixed_length_u32" -> "U32"
      [] name = "generate_fixed_length_u64" -> "U64"
      [] name = "generate_fixed_length_usize" -> "Usize"
      [] OTHER -> "U128"

\* the members of live whose coin (the output of the same position in
\* flips) is tails, i.e. whose output is odd, in their order
RECURSIVE KeepTails(_, _)
KeepTails(live, flips) ==
    IF live = <<>> THEN <<>>
    ELSE (IF IsEven(Head(flips)) THEN <<>> ELSE <<Head(live)>>)
         \o KeepTails(Tail(live), Tail(flips))

\* one round of the Fair Index Selector on the live set `live`, the coins
\* being the parities of the outputs flips: nothing is removed when all are
\* heads or all are tails, else the heads are
RoundOf(live, flips) ==
    IF \/ \A i \in 1..Len(flips) : IsEven(flips[i])
       \/ \A i \in 1..Len(flips) : ~IsEven(flips[i])
    THEN live
    ELSE KeepTails(live, flips)

\* the index the Fair Index Selector returns from the live set `live` when
\* the outputs rs are all it consumes, one per live index and round; -1 when
\* rs is not what a run of the selector consumes
RECURSIVE SelectorOutcome(_, _)
SelectorOutcome(live, rs) ==
    IF Len(live) <= 1 THEN (IF rs = <<>> /\ live # <<>> THEN live[1] ELSE -1)
    ELSE IF Len(rs) < Len(live) THEN -1
    ELSE SelectorOutcome(RoundOf(live, SubSeq(rs, 1, Len(live))),
                         SubSeq(rs, Len(live) + 1, Len(rs)))

\* C12 as stated: for every digit length L in 1..39 a fixed-length request is
\* served by one Bounds Table lookup, which gives [0, 9] for L = 1, and one
\* sampler call on the range looked up; no other mechanism is used.
C12_FixedLengthPath ==
    (pc = "returned" /\ op.name \in AllFixedOps) =>
        IF ClampedLength(op.length, DigitsOf(op.name)) = 1
        THEN OneSamplerCall(Zero, FromInt(9), number, raws)
        ELSE OneSamplerCall(
                 generate_bounds(ClampedLength(op.length, DigitsOf(op.name)),
                                 NumTypeOf(op.name))[1],
                 generate_bounds(ClampedLength(op.length, DigitsOf(op.name)),
                                 NumTypeOf(op.name))[2],
                 number, raws)

\* C12 as amended: for every digit length L in 2..39 a fixed-length request
\* is served by one Bounds Table lookup and one sampler call on the range
\* looked up; for L = 1 the table is not consulted (it has no entry for 1)
\* and the request is served by the Fair Index Selector on 10 indices, whose
\* survivor in 0..9 is the number.
C12_FixedLengthPathAmended ==
    (pc = "returned" /\ op.name \in AllFixedOps) =>
        IF ClampedLength(op.length, DigitsOf(op.name)) = 1
        THEN number = FromInt(SelectorOutcome(<<0, 1, 2, 3, 4, 5, 6, 7, 8, 9>>, raws))
        ELSE OneSamplerCall(
                 generate_bounds(ClampedLength(op.length, DigitsOf(op.name)),
                                 NumTypeOf(op.name))[1],
                 generate_bounds(ClampedLength(op.length, DigitsOf(op.name)),
                                 NumTypeOf(op.name))[2],
                 number, raws)

\* C12 case: a request of length 1 served by coin flips, at least one round
\* of 10, whose survivor is the number
C12_Witness ==
    /\ pc = "returned" /\ op.name \in AllFixedOps
    /\ op.length = 1 /\ Len(raws) >= 10
    /\ Le(number, FromInt(9))

\* C16: position 0 of the history is never changed by a step; in every
\* state of a generator it is the processed seed, (seed if odd, else
\* seed + 1) mod 2^120, and it is odd, whatever was drawn before.
C16_HeadStep ==
    (prng.y # <<>> /\ prng'.y # <<>>) => prng'.y[1] = prng.y[1]

C16_HeadFixed ==
    /\ [][C16_HeadStep]_vars
    /\ [](pc \in {"new", "idle", "returned"} =>
             /\ prng.y[1] = LowBits(IF IsEven(seed) THEN Add(seed, One) ELSE seed, 120)
             /\ ~IsEven(prng.y[1]))

\* C16 case: after the warm-up and several draws, the last a fixed-length
\* one of more than one output, position 0 is still the seed 1_000_000 made
\* odd while the position above it has moved on
C16_Witness ==
    /\ pc = "returned" /\ op.name \in FixedOps
    /\ drawn >= 3 /\ Len(raws) >= 2
    /\ seed = Dec(<<1, 000, 000>>)
    /\ prng.y[1] = Dec(<<1, 000, 001>>)
    /\ prng.y[2] # prng.y[1]

\* C17: no u128 addition or subtraction wraps for valid inputs: the seed
\* made odd is not below the seed (an even seed is below the maximum, so
\* adding 1 fits); every sum a pass of the State Engine forms, the new
\* value of a position plus the old value of the one above, fits and is
\* below 2^121; in a range call on lo..=hi, lo <= hi, hi - lo does not
\* borrow and lo plus the offset sampled does not carry; and no call
\* panics unless it is a range call on lo..=hi with hi < lo.
C17_NoWrapStep ==
    ( \/ (pc = "new" /\ pc' = "new")
      \/ (pc = "idle" /\ pc' = "returned" /\ op'.name = "generate_u128") ) =>
        \A i \in 2..prng.k :
            /\ ~AddOverflows(prng'.y[i - 1], prng.y[i])
            /\ Lt(Add(prng'.y[i - 1], prng.y[i]), Pow2(121))

C17_NoOverflow ==
    /\ [][C17_NoWrapStep]_vars
    /\ []((pc = "args" /\ seed # Zero) =>
             /\ IsEven(seed) => ~AddOverflows(seed, One)
             /\ Le(seed, odd_seed(seed)))
    /\ []((pc = "returned" /\ op.name \in RangeOps /\ Le(op.start, op.end)) =>
             /\ ~Sub(op.end, op.start, TRUE).panic
             /\ Le(WidthOf(op.start, op.end), op.end)
             /\ ~AddOverflows(op.start,
                              OffsetOf(raws[Len(raws)], WidthOf(op.start, op.end)))
             /\ number = Add(op.start,
                             OffsetOf(raws[Len(raws)], WidthOf(op.start, op.end))))
    /\ [](pc = "panicked" => (op.name \in RangeOps /\ Lt(op.end, op.start)))

\* C17 case: a range call whose upper bound is the largest u128 and whose
\* lower bound is not 0 has returned, on a generator built from the largest
\* seed
C17_Witness ==
    /\ Returned("generate_u128_between_range")
    /\ op.start = Pow10(38) /\ op.end = U128Max
    /\ seed = U128Max
    /\ Le(Pow10(38), number)

\* C13: in generate_index(n), n >= 1, the live set starts as 0..n-1 and is
\* at every round a non-empty part of it, in increasing order, that only
\* shrinks: a round flips one coin per live index; when all are heads or
\* all are tails it leaves the set as it was, else it removes exactly the
\* indices whose coin was heads (output even) and keeps the others in
\* order.  The value returned is the single survivor, in 0..n-1; for n = 1
\* it is 0 and no output is drawn.
C13_EliminationStep ==
    /\ (pc = "idle" /\ pc' = "index") =>
           /\ locals'.indicies = [i \in 1..op'.length |-> i - 1]
           /\ prng' = prng
    /\ (pc = "index" /\ pc' = "index") =>
           /\ Len(locals.indicies) > 1
           /\ Len(raws') = Len(locals.indicies)
           /\ locals'.indicies = RoundOf(locals.indicies, raws')
           /\ Len(locals'.indicies) <= Len(locals.indicies)
    /\ (pc = "index" /\ pc' = "returned") =>
           /\ Len(locals.indicies) = 1
           /\ ret' = FromInt(locals.indicies[1])
           /\ prng' = prng
    /\ (pc = "index") => pc' \in {"index", "returned"}

C13_Elimination ==
    /\ [][C13_EliminationStep]_vars
    /\ [](pc = "index" =>
             /\ Len(locals.indicies) >= 1
             /\ \A i \in 1..Len(locals.indicies) :
                    locals.indicies[i] \in 0..(op.length - 1)
             /\ \A i \in 1..(Len(locals.indicies) - 1) :
                    locals.indicies[i] < locals.indicies[i + 1])
    /\ []((pc = "returned" /\ op.name = "generate_index") =>
             /\ Lt(ret, FromInt(op.length))
             /\ op.length = 1 => (ret = Zero /\ raws = <<>>))

\* C13 case: generate_index(10) has returned an index other than 0 after a
\* last round that flipped coins for several, but no longer all, indices
C13_Witness ==
    /\ pc = "returned" /\ op.name = "generate_index"
    /\ op.length = 10
    /\ Len(raws) \in 2..9
    /\ ret # Zero /\ Le(ret, FromInt(9))

\* C14: for every n >= 1 and from every state of the generator,
\* generate_index(n), once called, returns.
C14_IndexTerminates == (pc = "index") ~> (pc = "returned")

\* C15: for every upper bound and from every state of the generator, the
\* redraw loop of generate_from_zero_range, once entered, comes to a number
\* that does not exceed the upper bound, and the function returns.
C15_SamplerTerminates == (pc = "zero_range") ~> (pc = "returned")

\* C15 case: a call on the upper bound 5 (x = 8) has returned a number
\* within the bound after at least one redraw
C15_Witness ==
    /\ pc = "returned" /\ op.name = "generate_from_zero_range"
    /\ op.end = FromInt(5)
    /\ Len(raws) = 2
    /\ Gt(LowBits(raws[1], 3), FromInt(5))
    /\ ret = LowBits(raws[2], 3)
    /\ Le(ret, FromInt(5))
=============================================================================
